---- MODULE Spec2Model ----
(***************************************************************************)
(* lasplot: the row paginator / stream composer of src/main.rs             *)
(* (generate_html, generate_html_row), the colour resolution of            *)
(* handle_request, and the curve-window walk of draw_curves (src/plot.rs). *)
(*                                                                         *)
(* Option<f64> is modelled as a sequence of length <= 1: None is <<>>,     *)
(* Some(v) is <<v>>.  Depth values are integers counted in hundredths, so  *)
(* that the "{:.2}" formatting of a label is exact.  Rust indices are      *)
(* 0-based; Get(s, i) reads s[i] the way slice::get(i) does.               *)
(***************************************************************************)
EXTENDS Integers, Sequences, FiniteSets, TLC

\* ------------------------------------------------------------------ bounds
MaxSteps == 5
MaxRowSteps == 3
\* config.pixels_per_step
PixelsPerStep == 2

\* ---------------------------------------------------------------- helpers
None == <<>>
Some(v) == <<v>>
IsSome(o) == o # <<>>
Unwrap(o) == o[1]

Min(a, b) == IF a <= b THEN a ELSE b
Max(a, b) == IF a >= b THEN a ELSE b

\* slice::get(i).and_then(|&d| d): None when i is out of range
Get(s, i) == IF i >= 0 /\ i < Len(s) THEN s[i + 1] ELSE None

\* the values a depth sample may take (hundredths of a depth unit)
DepthVals == {1050, 2000}

VARIABLES
    depth_data,      \* Vec<Option<f64>> of the main (depth) curve
    html_row_steps,  \* config.html_row_steps (rows per block)
    stage,           \* position in before.chain(rows.chain(after)): 1..4, 0 = aborted
    iter_next,       \* next row_idx of stream::iter(0..num_rows)
    in_progress,     \* the Buffered queue: futures pushed and not yet yielded
    completed,       \* row indices in the order their renders completed
    emitted,         \* the chunks handed to the transport, in order
    las_cols,        \* handle_request: the data column of every curve of the LAS file
    main_param_idx,  \* handle_request: index of the main (depth) curve
    colors,          \* handle_request: the explicit colour strings of the request
    hasher,          \* DefaultHasher: the 64-bit hash of (idx, mnemonic), per idx
    req_pc,          \* handle_request: how far the colour preparation has got
    curves_data,     \* handle_request: the plotted curves, in order
    x_ranges,        \* handle_request: (min, max) of every plotted curve
    plot_colors,     \* handle_request: RGB of every plotted curve
    color_hex_strings, \* handle_request: the hex strings, explicit then generated
    curve_to_color,  \* handle_request: curve index -> hex string of the legend
    legend_fallback, \* the curve indices whose legend colour was generated
    legend_rows,     \* generate_html: the rows of the legend table
    draw_pc,         \* draw_curves: "start", "walk", "done" ("idle": not rendering)
    draw_cfg,        \* draw_curves: width, height, x_ranges, y_range, window
    draw_data,       \* draw_curves: curves_data, one Vec<Option<f64>> per curve
    curve_idx,       \* draw_curves: the curve being walked (reverse order)
    slice_idx,       \* draw_curves: position in valid_indices
    last_point,      \* draw_curves: Option of the last plotted point of the curve
    strokes,         \* the segments handed to draw_line_dt, in order
    hex_call,        \* hex_to_rgb: one call, its argument and its outcome
    request,         \* handle_request: the outcome of the load, the main_param parameter
    disconnect,      \* Some(what had been emitted) once the client has disconnected
    peer,            \* the response stream of another, concurrent request
    png_cfg,         \* generate_plot_png: the PlotConfig of one render
    png,             \* generate_plot_png: position, loop state and what has been drawn
    conv             \* convert_bgra_to_rgba: src, dst, the path taken and its loop index

stream_vars == <<html_row_steps, stage, iter_next, in_progress, completed, emitted>>
color_vars == <<las_cols, main_param_idx, colors, hasher, req_pc, curves_data, x_ranges,
                plot_colors, color_hex_strings, curve_to_color, legend_fallback,
                legend_rows>>
draw_vars == <<draw_pc, draw_cfg, draw_data, curve_idx, slice_idx, last_point, strokes>>
aux_vars == <<hex_call, request, disconnect, peer, png_cfg, png, conv>>
vars == <<depth_data, stream_vars, color_vars, draw_vars, aux_vars>>

\* ------------------------------------------------------- las.rs statistics
\* get_curve_stats: min and max over the valid samples, None when there is none
ValidValues(data) == {Unwrap(data[i]) : i \in {j \in 1..Len(data) : IsSome(data[j])}}

SetMin(S) == CHOOSE m \in S : \A x \in S : m <= x
SetMax(S) == CHOOSE m \in S : \A x \in S : m >= x

get_curve_stats(data) ==
    IF ValidValues(data) = {} THEN None
    ELSE Some(<<SetMin(ValidValues(data)), SetMax(ValidValues(data))>>)

\* ------------------------------------------------------------- paginator
total_steps == Len(depth_data)

NumRowsFloor(total, steps) == total \div steps
NumRowsFloorPlusOne(total, steps) == total \div steps + 1
\* let num_rows = (total_steps + html_row_steps - 1) / html_row_steps;
NumRows(total, steps) == (total + steps - 1) \div steps

num_rows == NumRows(total_steps, html_row_steps)

start_block_value(row_idx) == row_idx * html_row_steps

EndBlockShort(row_idx) == Min(start_block_value(row_idx) + html_row_steps - 1, total_steps)
\* (start_block_value + html_row_steps).min(depth_data.len())
end_block_value(row_idx) == Min(start_block_value(row_idx) + html_row_steps, total_steps)

ActualEndUnchecked(row_idx) ==
    IF row_idx = num_rows - 1 THEN end_block_value(row_idx)
    ELSE end_block_value(row_idx) + 1

\* the widening of the row future: one more step, when it exists and is not None,
\* for every row but the last
actual_end(row_idx) ==
    IF row_idx = num_rows - 1 THEN end_block_value(row_idx)
    ELSE IF end_block_value(row_idx) < total_steps
         THEN IF IsSome(Get(depth_data, end_block_value(row_idx)))
              THEN end_block_value(row_idx) + 1
              ELSE end_block_value(row_idx)
         ELSE end_block_value(row_idx)

\* ------------------------------------------- draw_curves window collection
RECURSIVE CollectValid(_, _, _)
\* for i in depth_start_idx..actual_end { if let Some(depth) = ... push(i) }
CollectValid(depth, i, stop) ==
    IF i >= stop THEN <<>>
    ELSE (IF IsSome(Get(depth, i)) THEN <<i>> ELSE <<>>) \o CollectValid(depth, i + 1, stop)

all_indices(depth, depth_start_idx, depth_end_idx) ==
    LET stop == Min(depth_end_idx, Len(depth))
    IN  [k \in 1..Max(stop - depth_start_idx, 0) |-> depth_start_idx + k - 1]
        \o (IF depth_end_idx < Len(depth) /\ depth_end_idx >= stop
            THEN <<depth_end_idx>> ELSE <<>>)

\* valid_indices of draw_curves: the loop over depth_start_idx..min(depth_end_idx, len),
\* then the index depth_end_idx itself when it is inside the array and valid
valid_indices(depth, depth_start_idx, depth_end_idx) ==
    LET stop == Min(depth_end_idx, Len(depth))
    IN  CollectValid(depth, depth_start_idx, stop)
        \o (IF depth_end_idx < Len(depth) /\ depth_end_idx >= stop
               /\ IsSome(Get(depth, depth_end_idx))
            THEN <<depth_end_idx>> ELSE <<>>)

SeqRange(s) == {s[i] : i \in 1..Len(s)}

\* --------------------------------------------------------- generate_html_row
\* format!("{:.2}", start_depth) of a value counted in hundredths
DepthLabel(d) == <<d \div 100, d % 100>>

depth_min == SetMin(ValidValues(depth_data))

\* depth_data.get(start_block_value).and_then(|&d| d).unwrap_or(depth_min)
start_depth(start) ==
    IF IsSome(Get(depth_data, start)) THEN Unwrap(Get(depth_data, start)) ELSE depth_min

\* let row_height = config.html_row_steps * config.pixels_per_step + 1, the
\* height of the scale strip's PlotConfig
row_height == html_row_steps * PixelsPerStep + 1

\* let block_height = (1+html_row_steps) * pixels_per_step, the height of the
\* row blocks' PlotConfig
block_height == (1 + html_row_steps) * PixelsPerStep

\* height: the pixel height of the image the chunk carries, 0 when it has none
Chunk(kind, row) ==
    [kind |-> kind, row |-> row, label |-> <<>>, start |-> 0, end |-> 0,
     actual_end |-> 0, read |-> <<>>, height |-> 0]

RowChunkSharedCounter(row_idx) ==
    IF start_block_value(Len(completed)) >= total_steps
    THEN Chunk("empty", row_idx)
    ELSE [kind |-> "row", row |-> row_idx,
          label |-> DepthLabel(start_depth(start_block_value(Len(completed)))),
          start |-> start_block_value(Len(completed)),
          end |-> end_block_value(Len(completed)),
          actual_end |-> actual_end(Len(completed)),
          read |-> valid_indices(depth_data, start_block_value(Len(completed)),
                                 actual_end(Len(completed))),
          height |-> block_height]
\* the Ok(row_html) of one row future
RowChunk(row_idx) ==
    IF start_block_value(row_idx) >= total_steps
    THEN Chunk("empty", row_idx)
    ELSE [kind |-> "row", row |-> row_idx,
          label |-> DepthLabel(start_depth(start_block_value(row_idx))),
          start |-> start_block_value(row_idx),
          end |-> end_block_value(row_idx),
          actual_end |-> actual_end(row_idx),
          read |-> valid_indices(depth_data, start_block_value(row_idx), actual_end(row_idx)),
          height |-> block_height]

\* ----------------------------------------------------------------- stream
BufferedMaxThree == 2 + 1
\* .buffered(2)
BufferedMax == 2

ChainOrderRowsFirst == <<"rows", "before", "after">>
\* before.chain(html_plot_rows.chain(after))
ChainOrder == <<"before", "rows", "after">>

Segment == IF stage \in 1..3 THEN ChainOrder[stage] ELSE "none"

RECURSIVE Fill(_, _)
\* Buffered::poll_next: while in_progress_queue.len() < max, pull the next future
Fill(q, n) ==
    IF Len(q) < BufferedMax /\ n < num_rows
    THEN Fill(Append(q, [row |-> n, st |-> "pending", out |-> Chunk("none", n)]), n + 1)
    ELSE <<q, n>>

YieldIndexUnordered(q) ==
    IF \E i \in 1..Len(q) : q[i].st = "ready"
    THEN CHOOSE i \in 1..Len(q) :
            q[i].st = "ready" /\ \A j \in 1..Len(q) : q[j].st = "ready" => j <= i
    ELSE 0
\* FuturesOrdered yields only the output of the oldest future
YieldIndex(q) == IF Len(q) > 0 /\ q[1].st = "ready" THEN 1 ELSE 0

RemoveAt(q, i) == SubSeq(q, 1, i - 1) \o SubSeq(q, i + 1, Len(q))

\* ------------------------------------------------------ colour resolution
MaxCurves == 4
MaxColors == 2

\* CurveInfo.mnemonic of the curve at index idx
Mnemonics == <<"DEPT", "GR", "RHOB", "NPHI", "CALI", "SP", "DT">>
Mnemonic(idx) == Mnemonics[idx + 1]

HexUpper == <<"0", "1", "2", "3", "4", "5", "6", "7", "8", "9", "A", "B", "C", "D", "E", "F">>
HexLower == <<"0", "1", "2", "3", "4", "5", "6", "7", "8", "9", "a", "b", "c", "d", "e", "f">>

\* char::to_digit(16): the value of a hex digit, -1 for any other character
HexDigitVal(c) ==
    IF \E i \in 1..16 : HexUpper[i] = c THEN (CHOOSE i \in 1..16 : HexUpper[i] = c) - 1
    ELSE IF \E i \in 1..16 : HexLower[i] = c THEN (CHOOSE i \in 1..16 : HexLower[i] = c) - 1
    ELSE -1

\* u8::from_str_radix(pair, 16).unwrap_or(0) of a two-character slice: an
\* optional leading '+', then hex digits; anything else is an error, hence 0
ParseHexPair(pair) ==
    IF pair[1] = "+"
    THEN (IF HexDigitVal(pair[2]) >= 0 THEN HexDigitVal(pair[2]) ELSE 0)
    ELSE IF HexDigitVal(pair[1]) >= 0 /\ HexDigitVal(pair[2]) >= 0
         THEN 16 * HexDigitVal(pair[1]) + HexDigitVal(pair[2])
         ELSE 0

RECURSIVE TrimHash(_)
\* hex.trim_start_matches('#')
TrimHash(hex) == IF hex # <<>> /\ hex[1] = "#" THEN TrimHash(Tail(hex)) ELSE hex

\* hex_to_rgb of a string given as its bytes, when no slice panics
hex_to_rgb(hex) ==
    LET h == TrimHash(hex)
    IN  IF Len(h) >= 6
        THEN <<ParseHexPair(SubSeq(h, 1, 2)), ParseHexPair(SubSeq(h, 3, 4)),
               ParseHexPair(SubSeq(h, 5, 6))>>
        ELSE <<0, 0, 0>>

\* a colour string is its UTF-8 bytes: an ASCII byte is the character itself,
\* the two bytes of U+00E9 are "C3" (lead) and "A9" (continuation)
Utf8(c) == IF c = "U+00E9" THEN <<"C3", "A9">> ELSE <<c>>

RECURSIVE ToBytes(_)
\* the bytes of a string given as its characters
ToBytes(chars) == IF chars = <<>> THEN <<>> ELSE Utf8(Head(chars)) \o ToBytes(Tail(chars))

\* str::is_char_boundary(i), i a 0-based byte offset
IsCharBoundary(h, i) == i = 0 \/ i = Len(h) \/ (i < Len(h) /\ h[i + 1] # "A9")

\* &hex[0..2], &hex[2..4], &hex[4..6] panic when an end of the byte range is
\* not a char boundary
HexPanics(hex) ==
    LET h == TrimHash(hex)
    IN  /\ Len(h) >= 6
        /\ ~(IsCharBoundary(h, 2) /\ IsCharBoundary(h, 4) /\ IsCharBoundary(h, 6))

\* format!("{:02X}", n) of a u8
Fmt02X(n) == <<HexUpper[(n \div 16) + 1], HexUpper[(n % 16) + 1]>>

ClampChannelNone(c) == c
\* r.max(50)
ClampChannel(c) == Max(c, 50)

\* the generated colour of the curve at idx: the three low bytes of the hash of
\* (idx, mnemonic), each raised to 50 at least, as "RRGGBB"
FallbackHex(idx) ==
    LET seed == hasher[idx]
        r == ClampChannel(seed % 256)
        g == ClampChannel((seed \div 256) % 256)
        b == ClampChannel((seed \div 65536) % 256)
    IN  Fmt02X(r) \o Fmt02X(g) \o Fmt02X(b)

\* values DefaultHasher::finish may return (channels below and above 50, and
\* bits above the low 24)
HashVals == {3244042, 117505842}

\* explicit colour strings: "FF0000", "#0080ff", "bad"
ColorStrings == {<<"F", "F", "0", "0", "0", "0">>,
                 <<"#", "0", "0", "8", "0", "f", "f">>,
                 <<"b", "a", "d">>}

\* the columns a curve may have: no valid sample, or two distinct ones
ColumnVals == {<<None, None>>, <<Some(5), Some(9)>>}

n_curves == Len(las_cols)

IsMainParamNever(idx) == FALSE
\* if idx == main_param_idx { continue; }
IsMainParam(idx) == idx = main_param_idx

\* one iteration of the loop that prepares curves_data, x_ranges, plot_colors
PlotStep(idx, acc) ==
    IF IsMainParam(idx) THEN acc
    ELSE IF ~IsSome(get_curve_stats(las_cols[idx + 1])) THEN acc
    ELSE LET cd == Append(acc.curves_data,
                          [idx |-> idx, mnemonic |-> Mnemonic(idx), data |-> las_cols[idx + 1]])
             xr == Append(acc.x_ranges, Unwrap(get_curve_stats(las_cols[idx + 1])))
             color_idx == Len(cd) - 1
         IN  IF color_idx < Len(acc.color_hex_strings)
             THEN [curves_data |-> cd, x_ranges |-> xr,
                   plot_colors |-> Append(acc.plot_colors,
                                          hex_to_rgb(acc.color_hex_strings[color_idx + 1])),
                   color_hex_strings |-> acc.color_hex_strings]
             ELSE [curves_data |-> cd, x_ranges |-> xr,
                   plot_colors |-> Append(acc.plot_colors, hex_to_rgb(FallbackHex(idx))),
                   color_hex_strings |-> Append(acc.color_hex_strings, FallbackHex(idx))]

RECURSIVE PlotLoop(_, _)
\* for (idx, curve) in curves.iter().enumerate()
PlotLoop(idx, acc) == IF idx >= n_curves THEN acc ELSE PlotLoop(idx + 1, PlotStep(idx, acc))

\* one iteration of the loop that builds curve_to_color
MapStep(idx, acc) ==
    IF idx = main_param_idx THEN acc
    ELSE IF acc.color_idx < Len(color_hex_strings)
         THEN [map |-> acc.map @@ (idx :> color_hex_strings[acc.color_idx + 1]),
               color_idx |-> acc.color_idx + 1,
               fallback |-> acc.fallback]
         ELSE [map |-> acc.map @@ (idx :> FallbackHex(idx)),
               color_idx |-> acc.color_idx,
               fallback |-> acc.fallback \cup {idx}]

RECURSIVE MapLoop(_, _)
MapLoop(idx, acc) == IF idx >= n_curves THEN acc ELSE MapLoop(idx + 1, MapStep(idx, acc))

\* the legend cell of the curve at idx: <<>> for an empty cell, else <<hex>>
ColorCell(idx) ==
    IF idx = main_param_idx THEN <<>>
    ELSE IF idx \in DOMAIN curve_to_color THEN <<curve_to_color[idx]>>
    ELSE <<>>

RECURSIVE LegendLoop(_)
\* one table row for every curve that has statistics
LegendLoop(idx) ==
    IF idx >= n_curves THEN <<>>
    ELSE (IF IsSome(get_curve_stats(las_cols[idx + 1]))
          THEN <<[idx |-> idx, mnemonic |-> Mnemonic(idx), cell |-> ColorCell(idx)]>>
          ELSE <<>>) \o LegendLoop(idx + 1)

ColorIdle ==
    /\ las_cols = <<>>
    /\ main_param_idx = 0
    /\ colors = <<>>
    /\ hasher = <<>>
    /\ req_pc = "idle"
    /\ curves_data = <<>>
    /\ x_ranges = <<>>
    /\ plot_colors = <<>>
    /\ color_hex_strings = <<>>
    /\ curve_to_color = <<>>
    /\ legend_fallback = {}
    /\ legend_rows = <<>>

\* ------------------------------------------------------------ draw_curves
MaxDrawSteps == 4
ImageWidth == 200

\* the result of a saturated `as u32` cast: u32::MAX, stood in for by a value
\* above every canvas coordinate (TLC's integers are 32-bit)
U32Max == 2 ^ 30

\* let plot_x_start = 100 as f64;
plot_x_start == 100

\* `origin + ((v - lo) / (hi - lo)) * extent` cast `as u32`: the cast truncates,
\* saturates, and turns NaN (0/0) into 0.  Computed in exact arithmetic.
PixelCoord(origin, v, lo, hi, extent) ==
    IF hi = lo
    THEN (IF v > lo /\ extent > 0 THEN U32Max ELSE 0)
    ELSE LET den == IF hi > lo THEN hi - lo ELSE lo - hi
             num == IF hi > lo THEN (v - lo) * extent ELSE (lo - v) * extent
             whole == origin * den + num
         IN  IF whole < 0 THEN 0 ELSE Min(whole \div den, U32Max)

\* the values a curve sample may take
CurveVals == {0, 10}

\* the depth of the sample at 0-based index i of a regularly stepped log
DepthAt(i) == 100000 + 50 * i

DrawValid == valid_indices(depth_data, draw_cfg.start, draw_cfg.end)

\* ymin / ymax of the window, `y_min = ymin.unwrap_or(y_min)`
DrawYMin ==
    IF DrawValid = <<>> THEN draw_cfg.y_range[1]
    ELSE SetMin({Unwrap(Get(depth_data, i)) : i \in SeqRange(DrawValid)})
DrawYMax ==
    IF DrawValid = <<>> THEN draw_cfg.y_range[2]
    ELSE SetMax({Unwrap(Get(depth_data, i)) : i \in SeqRange(DrawValid)})

\* (x_int, y_int) of the sample at data_idx of the curve being walked
PointOf(c, data_idx) ==
    <<PixelCoord(plot_x_start, Unwrap(draw_data[c + 1][data_idx + 1]),
                 draw_cfg.x_ranges[c + 1][1], draw_cfg.x_ranges[c + 1][2], draw_cfg.width),
      PixelCoord(0, Unwrap(Get(depth_data, data_idx)), DrawYMin, DrawYMax, draw_cfg.height)>>

InCanvasWidthOnly(pt) == pt[1] < draw_cfg.width
\* if x_int < config.width && y_int < config.height
InCanvas(pt) == pt[1] < draw_cfg.width /\ pt[2] < draw_cfg.height

\* if curve_idx >= config.x_ranges.len() || curve_idx >= config.colors.len() { continue; }
CurveSkipped(c) == c >= Len(draw_cfg.x_ranges) \/ c >= draw_cfg.n_colors

DrawIdle ==
    /\ draw_pc = "idle"
    /\ draw_cfg = <<>>
    /\ draw_data = <<>>
    /\ curve_idx = 0
    /\ slice_idx = 0
    /\ last_point = None
    /\ strokes = <<>>

HexIdle == hex_call = [pc |-> "idle", hex |-> <<>>, rgb |-> <<>>]

ReqIdle == request = [load_ok |-> TRUE, main_param |-> None, scale_ok |-> TRUE]

ConnIdle == disconnect = None /\ peer = [num_rows |-> 0, emitted |-> <<>>]

PngIdle ==
    /\ png_cfg = <<>>
    /\ png = [pc |-> "idle", idx |-> 0, y_pos |-> 0, rules |-> <<>>, ticks |-> <<>>,
              tick_positions |-> <<>>, points |-> <<>>, guide_lines |-> <<>>, spins |-> 0]

ConvIdle == conv = [pc |-> "idle", ssse3 |-> FALSE, src |-> <<>>, dst |-> <<>>, i |-> 0]

\* every operation outside the three of generate_html, handle_request's colours
\* and draw_curves is idle, but for the one named
AuxIdleExcept(g) ==
    /\ g = "hex" \/ HexIdle
    /\ g = "request" \/ ReqIdle
    /\ g = "cancel" \/ ConnIdle
    /\ g = "png" \/ PngIdle
    /\ g = "conv" \/ ConvIdle

AuxIdle == AuxIdleExcept("none")

StreamIdle ==
    /\ html_row_steps = 1
    /\ stage = 0
    /\ iter_next = 0
    /\ in_progress = <<>>
    /\ completed = <<>>
    /\ emitted = <<>>

Init ==
    /\ html_row_steps \in 1..MaxRowSteps
    /\ depth_data \in UNION {[1..n -> {None} \cup {Some(v) : v \in DepthVals}] : n \in 1..MaxSteps}
    \* handle_request reaches generate_html only when get_curve_stats(main) is Some
    /\ IsSome(get_curve_stats(depth_data))
    /\ stage = 1
    /\ iter_next = 0
    /\ in_progress = <<>>
    /\ completed = <<>>
    /\ emitted = <<>>
    /\ ColorIdle
    /\ DrawIdle
    /\ AuxIdle

\* the item of a once() segment: `before` is the header chunk (preamble, legend,
\* scale strip), `after` is the closing chunk
OnceChunk(seg) ==
    IF seg = "before" THEN [Chunk("header", 0) EXCEPT !.height = row_height]
    ELSE Chunk("closing", 0)

\* poll of the chain while a once() segment is current
PollOnce ==
    /\ Segment \in {"before", "after"}
    /\ emitted' = Append(emitted, OnceChunk(Segment))
    /\ stage' = stage + 1
    /\ UNCHANGED <<aux_vars, color_vars, draw_vars, depth_data, html_row_steps, iter_next, in_progress, completed>>

\* a row future of the queue runs to completion: Ok(row_html) or Err
RenderComplete(i, ok) ==
    /\ Segment = "rows"
    /\ i \in 1..Len(in_progress)
    /\ in_progress[i].st = "pending"
    /\ in_progress' = [in_progress EXCEPT ![i] =
            [row |-> @.row, st |-> "ready",
             out |-> IF ok THEN RowChunk(@.row) ELSE Chunk("error", @.row)]]
    /\ completed' = Append(completed, in_progress[i].row)
    /\ UNCHANGED <<aux_vars, color_vars, draw_vars, depth_data, html_row_steps, stage, iter_next, emitted>>

StageAfterItemPolledOn(item) == stage
\* the item goes to the response body of HttpResponse::streaming: an Err item
\* ends the body, the stream is dropped and not polled again
StageAfterItem(item) == IF item.kind = "error" THEN 0 ELSE stage

\* poll of the buffered rows stream that yields an item
PollRowsEmit ==
    /\ Segment = "rows"
    /\ LET f == Fill(in_progress, iter_next)
           i == YieldIndex(f[1])
       IN  /\ i > 0
           /\ emitted' = Append(emitted, f[1][i].out)
           /\ in_progress' = RemoveAt(f[1], i)
           /\ iter_next' = f[2]
           /\ stage' = StageAfterItem(f[1][i].out)
    /\ UNCHANGED <<aux_vars, color_vars, draw_vars, depth_data, html_row_steps, completed>>

\* poll of the buffered rows stream that finds nothing ready: Poll::Pending
PollRowsPending ==
    /\ Segment = "rows"
    /\ LET f == Fill(in_progress, iter_next)
       IN  /\ Len(f[1]) > 0
           /\ YieldIndex(f[1]) = 0
           /\ in_progress' = f[1]
           /\ iter_next' = f[2]
    /\ UNCHANGED <<aux_vars, color_vars, draw_vars, depth_data, html_row_steps, stage, emitted, completed>>

\* the rows stream is finished: Chain drops it and polls the segment that
\* follows in the same call
PollRowsEnd ==
    /\ Segment = "rows"
    /\ Len(Fill(in_progress, iter_next)[1]) = 0
    /\ emitted' = Append(emitted, OnceChunk(ChainOrder[stage + 1]))
    /\ stage' = stage + 2
    /\ UNCHANGED <<aux_vars, color_vars, draw_vars, depth_data, html_row_steps, iter_next, in_progress, completed>>

Next ==
    \/ PollOnce
    \/ \E i \in 1..Len(in_progress), ok \in BOOLEAN : RenderComplete(i, ok)
    \/ PollRowsEmit
    \/ PollRowsPending
    \/ PollRowsEnd

Spec == Init /\ [][Next]_vars

\* ------------------------------------------- handle_request, the colours
InitColor ==
    /\ las_cols \in UNION {[1..n -> ColumnVals] : n \in 2..MaxCurves}
    /\ main_param_idx \in 0..(Len(las_cols) - 1)
    \* past "No depth data": the main curve has statistics
    /\ IsSome(get_curve_stats(las_cols[main_param_idx + 1]))
    /\ colors \in UNION {[1..n -> ColorStrings] : n \in 0..MaxColors}
    /\ hasher \in [0..(Len(las_cols) - 1) -> HashVals]
    /\ req_pc = "start"
    /\ curves_data = <<>>
    /\ x_ranges = <<>>
    /\ plot_colors = <<>>
    /\ color_hex_strings = <<>>
    /\ curve_to_color = <<>>
    /\ legend_fallback = {}
    /\ legend_rows = <<>>
    /\ depth_data = <<>>
    /\ StreamIdle
    /\ DrawIdle
    /\ AuxIdle

AfterPlotLoopUnchecked(cd) == "resolved"
\* if curves_data.is_empty() { return Err("No curves to plot") }
AfterPlotLoop(cd) == IF cd = <<>> THEN "error" ELSE "resolved"

\* the loop over the curves that fills curves_data, x_ranges, plot_colors,
\* then the "No curves to plot" return
ResolvePlotColors ==
    /\ req_pc = "start"
    /\ LET r == PlotLoop(0, [curves_data |-> <<>>, x_ranges |-> <<>>, plot_colors |-> <<>>,
                             color_hex_strings |-> colors])
       IN  /\ curves_data' = r.curves_data
           /\ x_ranges' = r.x_ranges
           /\ plot_colors' = r.plot_colors
           /\ color_hex_strings' = r.color_hex_strings
           /\ req_pc' = AfterPlotLoop(r.curves_data)
    /\ UNCHANGED <<las_cols, main_param_idx, colors, hasher, curve_to_color,
                   legend_fallback, legend_rows, depth_data, stream_vars, draw_vars, aux_vars>>

\* the loop that maps every non-main curve index to a hex string
BuildCurveToColor ==
    /\ req_pc = "resolved"
    /\ LET r == MapLoop(0, [map |-> <<>>, color_idx |-> 0, fallback |-> {}])
       IN  /\ curve_to_color' = r.map
           /\ legend_fallback' = r.fallback
    /\ req_pc' = "mapped"
    /\ UNCHANGED <<las_cols, main_param_idx, colors, hasher, curves_data, x_ranges,
                   plot_colors, color_hex_strings, legend_rows, depth_data, stream_vars, draw_vars, aux_vars>>

\* generate_html: the legend table of the header chunk
LegendTable ==
    /\ req_pc = "mapped"
    /\ legend_rows' = LegendLoop(0)
    /\ req_pc' = "legend"
    /\ UNCHANGED <<las_cols, main_param_idx, colors, hasher, curves_data, x_ranges,
                   plot_colors, color_hex_strings, curve_to_color, legend_fallback,
                   depth_data, stream_vars, draw_vars, aux_vars>>

NextColor ==
    \/ ResolvePlotColors
    \/ BuildCurveToColor
    \/ LegendTable

SpecColor == InitColor /\ [][NextColor]_vars

\* the legend row of the curve at idx
LegendRowOf(idx) == CHOOSE row \in SeqRange(legend_rows) : row.idx = idx

\* C9 (as claimed): the swatch of every plotted curve shows the colour the
\* curve is drawn with.
Cex_C9_LegendMatchesPlot ==
    req_pc = "legend" =>
        \A k \in 1..Len(curves_data) :
            /\ \E row \in SeqRange(legend_rows) : row.idx = curves_data[k].idx
            /\ LegendRowOf(curves_data[k].idx).cell # <<>>
            /\ hex_to_rgb(LegendRowOf(curves_data[k].idx).cell[1]) = plot_colors[k]

\* the three low bytes of a hash value
HashBytes(seed) == <<seed % 256, (seed \div 256) % 256, (seed \div 65536) % 256>>

\* C10: the k-th plotted curve (k from 0) is drawn with explicit_colors[k] when
\* k < len(explicit_colors); otherwise with the colour generated from the hash
\* of its (index, mnemonic), every channel >= 50; the hex string kept for it
\* decodes to that colour, and where the legend loop generates the colour of
\* the same curve again it gets the same hex string.
Thm_C10_ColorResolution ==
    req_pc \in {"resolved", "mapped", "legend"} =>
        /\ Len(plot_colors) = Len(curves_data)
        /\ Len(color_hex_strings) >= Len(curves_data)
        /\ \A k \in 1..Len(curves_data) :
              LET idx == curves_data[k].idx
                  hb == HashBytes(hasher[idx])
              IN  IF k <= Len(colors)
                  THEN /\ plot_colors[k] = hex_to_rgb(colors[k])
                       /\ color_hex_strings[k] = colors[k]
                  ELSE /\ \A ch \in 1..3 :
                            /\ plot_colors[k][ch] >= 50
                            /\ plot_colors[k][ch] = (IF hb[ch] < 50 THEN 50 ELSE hb[ch])
                       /\ hex_to_rgb(color_hex_strings[k]) = plot_colors[k]
                       /\ Len(color_hex_strings[k]) = 6
                       /\ (req_pc # "resolved" /\ idx \in legend_fallback)
                             => curve_to_color[idx] = color_hex_strings[k]

\* one curve drawn with an explicit colour, another with a generated colour
\* that has a channel raised to 50, and generated again for the legend
Wit_C10_ExplicitAndFallback ==
    /\ req_pc = "legend"
    /\ Len(colors) >= 1
    /\ Len(curves_data) > Len(colors)
    /\ \E k \in (Len(colors) + 1)..Len(curves_data) :
          /\ \E ch \in 1..3 : HashBytes(hasher[curves_data[k].idx])[ch] < 50
          /\ curves_data[k].idx \in legend_fallback

\* ---------------------------------------------- draw_curves, one row block
\* one row block of one request: the window the row future passes to
\* generate_html_row, the PlotConfig of generate_html, one plotted curve
InitDraw ==
    /\ html_row_steps \in 1..MaxRowSteps
    /\ depth_data \in UNION {{[i \in 1..n |-> IF i \in valid THEN Some(DepthAt(i - 1)) ELSE None] :
                                 valid \in (SUBSET (1..n)) \ {{}}} : n \in 1..MaxDrawSteps}
    /\ draw_data \in [1..1 -> [1..Len(depth_data) -> {None} \cup {Some(v) : v \in CurveVals}]]
    /\ \A c \in 1..Len(draw_data) : IsSome(get_curve_stats(draw_data[c]))
    /\ \E row_idx \in 0..(num_rows - 1) :
          draw_cfg = [width |-> ImageWidth,
                      height |-> block_height,
                      x_ranges |-> [c \in 1..Len(draw_data) |-> Unwrap(get_curve_stats(draw_data[c]))],
                      n_colors |-> Len(draw_data),
                      y_range |-> Unwrap(get_curve_stats(depth_data)),
                      start |-> start_block_value(row_idx),
                      end |-> actual_end(row_idx)]
    /\ draw_pc = "start"
    /\ curve_idx = 0
    /\ slice_idx = 0
    /\ last_point = None
    /\ strokes = <<>>
    /\ stage = 0
    /\ iter_next = 0
    /\ in_progress = <<>>
    /\ completed = <<>>
    /\ emitted = <<>>
    /\ ColorIdle
    /\ AuxIdle

\* the window collection; `if depth_slice.is_empty() { return Ok(()) }`
DrawBegin ==
    /\ draw_pc = "start"
    /\ draw_pc' = IF DrawValid = <<>> THEN "done" ELSE "walk"
    /\ curve_idx' = Len(draw_data) - 1
    /\ slice_idx' = 0
    /\ last_point' = None
    /\ UNCHANGED <<draw_cfg, draw_data, strokes, depth_data, stream_vars, color_vars, aux_vars>>

EnumerateForward(k) == Len(draw_data) - 1 - k
\* curves_data.iter().enumerate().rev(): the curve index the iterator yields
\* when k curves come before it in the list
EnumerateRev(k) == k

PenLifted(pen) == None
\* the bounds check `if x_int < config.width && y_int < config.height` has no
\* else branch: last_point keeps its value when the check fails
PenAfterOutOfCanvas(pen) == pen

\* one iteration of the loop over valid_indices for the current curve
DrawSample ==
    /\ draw_pc = "walk"
    /\ curve_idx >= 0
    /\ ~CurveSkipped(curve_idx)
    /\ slice_idx < Len(DrawValid)
    /\ LET data_idx == DrawValid[slice_idx + 1]
           data == draw_data[EnumerateRev(curve_idx) + 1]
       IN  IF data_idx >= Len(data)
           THEN UNCHANGED <<last_point, strokes>>
           ELSE IF IsSome(data[data_idx + 1])
                THEN LET pt == PointOf(EnumerateRev(curve_idx), data_idx)
                     IN  IF InCanvas(pt)
                         THEN /\ strokes' = IF IsSome(last_point)
                                            THEN Append(strokes,
                                                   [curve |-> EnumerateRev(curve_idx),
                                                    from |-> Unwrap(last_point).idx,
                                                    to |-> data_idx,
                                                    p1 |-> Unwrap(last_point).pt,
                                                    p2 |-> pt])
                                            ELSE strokes
                              /\ last_point' = Some([idx |-> data_idx, pt |-> pt])
                         ELSE /\ last_point' = PenAfterOutOfCanvas(last_point)
                              /\ UNCHANGED strokes
                ELSE \* NaN or null: the line breaks
                     /\ last_point' = None
                     /\ UNCHANGED strokes
    /\ slice_idx' = slice_idx + 1
    /\ UNCHANGED <<draw_pc, draw_cfg, draw_data, curve_idx, depth_data, stream_vars, color_vars, aux_vars>>

\* the walk of one curve is over (or the curve is skipped): on to the curve
\* before it, and out of the loop after curve 0
DrawNextCurve ==
    /\ draw_pc = "walk"
    /\ curve_idx >= 0
    /\ CurveSkipped(curve_idx) \/ slice_idx = Len(DrawValid)
    /\ curve_idx' = curve_idx - 1
    /\ slice_idx' = 0
    /\ last_point' = None
    /\ draw_pc' = IF curve_idx = 0 THEN "done" ELSE "walk"
    /\ UNCHANGED <<draw_cfg, draw_data, strokes, depth_data, stream_vars, color_vars, aux_vars>>

NextDraw ==
    \/ DrawBegin
    \/ DrawSample
    \/ DrawNextCurve

SpecDraw == InitDraw /\ [][NextDraw]_vars

\* C8 (as claimed): no stroked segment joins a point before a null value of
\* the curve to a point after it.
Cex_C8_NullGap ==
    \A n \in 1..Len(strokes) :
        \A j \in (strokes[n].from + 1)..(strokes[n].to - 1) :
            IsSome(draw_data[strokes[n].curve + 1][j + 1])

\* ------------------------------------------------------------ the stream
IsRowItem(c) == c.kind \in {"row", "empty", "error"}
RowItems == SelectSeq(emitted, IsRowItem)
IsRowChunk(c) == c.kind \in {"row", "empty"}
RowChunks == SelectSeq(emitted, IsRowChunk)
StreamDone == stage = 4

\* the position of row r in the completion order, 0 when it has not completed
RECURSIVE PosIn(_, _)
PosIn(s, r) == IF s = <<>> THEN 0
               ELSE IF s[Len(s)] = r /\ r \notin SeqRange(SubSeq(s, 1, Len(s) - 1))
                    THEN Len(s) ELSE PosIn(SubSeq(s, 1, Len(s) - 1), r)

\* C1: whatever the order in which the row renders complete, the n-th item the
\* rows stream emits is the chunk of block n-1: block k before block k+1.
Thm_C1_RowOrder ==
    \A n \in 1..Len(RowItems) : RowItems[n].row = n - 1

\* block 1 completed before block 0, and both chunks have been emitted
Wit_C1_OutOfOrderCompletion ==
    /\ Len(RowChunks) >= 2
    /\ PosIn(completed, 1) > 0
    /\ PosIn(completed, 1) < PosIn(completed, 0)

\* C2: exactly one header chunk, first; then the row chunks; then exactly one
\* closing chunk, last; nothing follows the closing chunk.
Thm_C2_StageOrder ==
    /\ \A i \in 1..Len(emitted) :
          /\ (emitted[i].kind = "header") <=> (i = 1)
          /\ emitted[i].kind = "closing" => i = Len(emitted) /\ StreamDone
    /\ StreamDone =>
          /\ Len(emitted) >= 2
          /\ emitted[Len(emitted)].kind = "closing"
          /\ \A i \in 2..(Len(emitted) - 1) : IsRowChunk(emitted[i])

Wit_C2_ClosedAfterRows ==
    /\ StreamDone
    /\ Len(emitted) >= 4
    /\ emitted[Len(emitted)].kind = "closing"

\* C3: the un-widened windows [start, end) of the row blocks cover
\* [0, total_depth_samples): every depth index lies in exactly one window.
\* Stated of the blocks as computed and of the chunks as emitted.
Thm_C3_PaginationComplete ==
    /\ \A i \in 0..(total_steps - 1) :
          Cardinality({k \in 0..(num_rows - 1) :
              start_block_value(k) <= i /\ i < end_block_value(k)}) = 1
    /\ \A n \in 1..Len(RowChunks) :
          RowChunks[n].start = (IF n = 1 THEN 0 ELSE RowChunks[n - 1].end)
    /\ StreamDone => Len(RowChunks) >= 1 /\ RowChunks[Len(RowChunks)].end = total_steps

\* a finished document with a short last block
Wit_C3_ShortLastBlock ==
    /\ StreamDone
    /\ Len(RowChunks) >= 2
    /\ total_steps % html_row_steps # 0

\* C4 (as claimed): two adjacent blocks whose boundary sample is non-null read
\* exactly one depth index in common, the boundary index.
Cex_C4_OneSharedSample ==
    \A n \in 1..(Len(RowChunks) - 1) :
        IsSome(Get(depth_data, RowChunks[n].end)) =>
            SeqRange(RowChunks[n].read) \cap SeqRange(RowChunks[n + 1].read)
                = {RowChunks[n].end}

\* ceil(a / b) stated without the rounding-up trick of the code
CeilDiv(a, b) == CHOOSE n \in 0..a : n * b >= a /\ (n - 1) * b < a

\* C5: between header and closing chunk exactly ceil(total / rows_per_block)
\* row chunks are emitted.
Thm_C5_RowCount ==
    StreamDone => Len(RowChunks) = CeilDiv(total_steps, html_row_steps)

Wit_C5_RoundedUp ==
    /\ StreamDone
    /\ total_steps % html_row_steps # 0
    /\ Len(RowChunks) = (total_steps \div html_row_steps) + 1
    /\ Len(RowChunks) >= 2

\* the first valid depth value of the window [start, end), None when there is none
FirstValidDepth(start, end) ==
    LET v == CollectValid(depth_data, start, end)
    IN  IF v = <<>> THEN None ELSE Get(depth_data, v[1])

\* C6 (as claimed): the label of a row chunk is the first valid depth value of
\* its block, also when the sample at the block's start index is null.
Cex_C6_LabelFirstValid ==
    \A n \in 1..Len(RowChunks) :
        LET c == RowChunks[n]
        IN  (c.kind = "row" /\ IsSome(FirstValidDepth(c.start, c.end))) =>
                c.label = DepthLabel(Unwrap(FirstValidDepth(c.start, c.end)))

\* C7: at most 2 row blocks are started and not yet emitted, and block k+2 is
\* not started before the chunk of block k has been emitted.
Thm_C7_LookAhead ==
    /\ Len(in_progress) <= 2
    /\ \A i \in 1..Len(in_progress) : in_progress[i].row < Len(RowItems) + 2
    /\ iter_next <= Len(RowItems) + 2

\* two blocks in flight while more blocks wait, with chunks already emitted
Wit_C7_WindowFull ==
    /\ Len(in_progress) = 2
    /\ Len(RowChunks) >= 1
    /\ iter_next < num_rows

\* ------------------------------------------------------- hex_to_rgb alone
MaxHexChars == 6

\* the characters a colour string is made of: hex digits, a non-hex letter,
\* a sign, the prefix and a two-byte character
HexChars == {"F", "0", "z", "+", "#", "U+00E9"}

InitHex ==
    /\ \E n \in 0..MaxHexChars : \E chars \in [1..n -> HexChars] :
          hex_call = [pc |-> "call", hex |-> ToBytes(chars), rgb |-> <<>>]
    /\ depth_data = <<>>
    /\ StreamIdle
    /\ ColorIdle
    /\ DrawIdle
    /\ AuxIdleExcept("hex")

\* one call of hex_to_rgb: it returns the channels or panics in a slice
HexToRgb ==
    /\ hex_call.pc = "call"
    /\ hex_call' = IF HexPanics(hex_call.hex)
                   THEN [hex_call EXCEPT !.pc = "panicked"]
                   ELSE [hex_call EXCEPT !.pc = "returned", !.rgb = hex_to_rgb(hex_call.hex)]
    /\ UNCHANGED <<depth_data, stream_vars, color_vars, draw_vars, request, disconnect, peer,
                   png_cfg, png, conv>>

NextHex == HexToRgb

SpecHex == InitHex /\ [][NextHex]_vars

\* a string that is not six hex digits after the '#' prefix
Malformed(hex) ==
    LET h == TrimHash(hex)
    IN  Len(h) < 6 \/ \E i \in 1..6 : HexDigitVal(h[i]) < 0

\* C11: hex_to_rgb never fails; it returns black for every malformed colour
\* string (too short, a non-hex digit in any channel, a non-ASCII character),
\* and (255, 0, 0) for "FF0000".
Cex_C11_MalformedIsBlack ==
    /\ hex_call.pc # "panicked"
    /\ hex_call.pc = "returned" =>
          /\ Malformed(hex_call.hex) => hex_call.rgb = <<0, 0, 0>>
          /\ hex_call.hex = <<"F", "F", "0", "0", "0", "0">> => hex_call.rgb = <<255, 0, 0>>

\* ---------------------------------------------- handle_request as a whole
\* the values of the main_param query parameter
RequestNames == {"dept", "GR", "XX"}

\* str::to_uppercase of a mnemonic or of a main_param value
to_uppercase(name) == IF name = "dept" THEN "DEPT" ELSE IF name = "gr" THEN "GR" ELSE name

\* LasFile::get_curve_index: the first curve whose upper-cased mnemonic is
\* the upper-cased name, None when there is none
get_curve_index(name) ==
    LET hits == {idx \in 0..(n_curves - 1) : to_uppercase(Mnemonic(idx)) = to_uppercase(name)}
    IN  IF hits = {} THEN None ELSE Some(SetMin(hits))

\* params.get("main_param"), else the first curve of the file, else "DEPT"
main_param_name ==
    IF IsSome(request.main_param) THEN Unwrap(request.main_param)
    ELSE IF n_curves > 0 THEN Mnemonic(0) ELSE "DEPT"

InitRequest ==
    /\ request \in [load_ok : BOOLEAN, main_param : {None} \cup {Some(n) : n \in RequestNames},
                     scale_ok : BOOLEAN]
    /\ las_cols \in UNION {[1..n -> ColumnVals] : n \in 0..MaxCurves}
    /\ main_param_idx = 0
    /\ colors \in {<<>>, <<<<"F", "F", "0", "0", "0", "0">>>>}
    /\ hasher = [idx \in 0..(Len(las_cols) - 1) |-> 3244042]
    /\ req_pc = "load"
    /\ curves_data = <<>>
    /\ x_ranges = <<>>
    /\ plot_colors = <<>>
    /\ color_hex_strings = <<>>
    /\ curve_to_color = <<>>
    /\ legend_fallback = {}
    /\ legend_rows = <<>>
    /\ depth_data = <<>>
    /\ html_row_steps \in 1..MaxRowSteps
    /\ stage = 0
    /\ iter_next = 0
    /\ in_progress = <<>>
    /\ completed = <<>>
    /\ emitted = <<>>
    /\ DrawIdle
    /\ AuxIdleExcept("request")

\* load_las_file(..)? then LasFile::parse(..)?, which returns Ok on every path
LoadLas ==
    /\ req_pc = "load"
    /\ req_pc' = IF request.load_ok THEN "parsed" ELSE "error"
    /\ UNCHANGED <<las_cols, main_param_idx, colors, hasher, curves_data, x_ranges,
                   plot_colors, color_hex_strings, curve_to_color, legend_fallback,
                   legend_rows, depth_data, stream_vars, draw_vars, aux_vars>>

\* get_main_parameter_index(main_param_name).ok_or_else(..)?
FindMainParam ==
    /\ req_pc = "parsed"
    /\ IF IsSome(get_curve_index(main_param_name))
       THEN /\ main_param_idx' = Unwrap(get_curve_index(main_param_name))
            /\ req_pc' = "main"
       ELSE /\ req_pc' = "error"
            /\ UNCHANGED main_param_idx
    /\ UNCHANGED <<las_cols, colors, hasher, curves_data, x_ranges,
                   plot_colors, color_hex_strings, curve_to_color, legend_fallback,
                   legend_rows, depth_data, stream_vars, draw_vars, aux_vars>>

\* depth_data = get_curve_data(main_param_idx); get_curve_stats(..).ok_or_else(..)?
DepthStats ==
    /\ req_pc = "main"
    /\ depth_data' = las_cols[main_param_idx + 1]
    /\ req_pc' = IF IsSome(get_curve_stats(las_cols[main_param_idx + 1])) THEN "start" ELSE "error"
    /\ UNCHANGED <<las_cols, main_param_idx, colors, hasher, curves_data, x_ranges,
                   plot_colors, color_hex_strings, curve_to_color, legend_fallback,
                   legend_rows, stream_vars, draw_vars, aux_vars>>

\* generate_html past the legend: the scale strip is rendered, its error is
\* the error of generate_html; otherwise the stream is built and handed to
\* HttpResponse::streaming
StartStream ==
    /\ req_pc = "legend"
    /\ IF request.scale_ok
       THEN /\ req_pc' = "streaming"
            /\ stage' = 1
       ELSE /\ req_pc' = "error"
            /\ UNCHANGED stage
    /\ UNCHANGED <<las_cols, main_param_idx, colors, hasher, curves_data, x_ranges,
                   plot_colors, color_hex_strings, curve_to_color, legend_fallback,
                   legend_rows, depth_data, html_row_steps, iter_next, in_progress,
                   completed, emitted, draw_vars, aux_vars>>

NextRequest ==
    \/ LoadLas
    \/ FindMainParam
    \/ DepthStats
    \/ NextColor
    \/ StartStream
    \/ Next

SpecRequest == InitRequest /\ [][NextRequest]_vars

\* the four request-level failures, read off the request and the file
LoadFails == ~request.load_ok
MainNotFound ==
    \A idx \in 0..(n_curves - 1) : to_uppercase(Mnemonic(idx)) # to_uppercase(main_param_name)
MainIdx == CHOOSE idx \in 0..(n_curves - 1) : to_uppercase(Mnemonic(idx)) = to_uppercase(main_param_name)
NoDepthSample == ~MainNotFound /\ \A i \in 1..Len(las_cols[MainIdx + 1]) : las_cols[MainIdx + 1][i] = None
NoPlottableCurve ==
    /\ ~MainNotFound
    /\ \A idx \in 0..(n_curves - 1) :
          idx # MainIdx => \A i \in 1..Len(las_cols[idx + 1]) : las_cols[idx + 1][i] = None
RequestFails == LoadFails \/ MainNotFound \/ NoDepthSample \/ NoPlottableCurve

\* C12: when the source cannot be loaded, the main curve is not found, the
\* depth curve has no valid sample or no other curve has one, handle_request
\* returns an error and no chunk is emitted, not even the header.
Thm_C12_NoPartialDocument ==
    /\ (req_pc # "idle" /\ RequestFails) =>
          /\ emitted = <<>>
          /\ stage = 0
          /\ req_pc \in {"load", "parsed", "main", "start", "error"}
    /\ req_pc = "error" => emitted = <<>> /\ stage = 0

\* the last of the four checks has returned the error: the file loaded, the
\* depth curve has samples, no other curve has
Wit_C12_NoCurvesError ==
    /\ req_pc = "error"
    /\ request.load_ok
    /\ IsSome(get_curve_stats(depth_data))
    /\ n_curves >= 2
    /\ curves_data = <<>>

\* ------------------------------------------------ a failed row-block render
\* C13: when the render of row block k fails, the stream is aborted: after the
\* error of block k no chunk of a block j > k and no closing chunk is emitted.
Thm_C13_ErrorAborts ==
    /\ \A i \in 1..Len(emitted) : emitted[i].kind = "error" => i = Len(emitted)
    /\ (emitted # <<>> /\ emitted[Len(emitted)].kind = "error") => stage = 0

\* the error of a block that is not the last has been emitted while the
\* render of a later block is complete and waiting in the queue
Wit_C13_LaterBlockRendered ==
    /\ emitted # <<>>
    /\ emitted[Len(emitted)].kind = "error"
    /\ emitted[Len(emitted)].row < num_rows - 1
    /\ \E i \in 1..Len(in_progress) :
          /\ in_progress[i].st = "ready"
          /\ in_progress[i].out.kind = "row"
          /\ in_progress[i].row > emitted[Len(emitted)].row

\* ------------------------------------------- a client that disconnects
\* one request whose depth samples are all valid, and a second request whose
\* stream has one row block
InitCancel ==
    /\ html_row_steps \in 1..MaxRowSteps
    /\ \E n \in 1..MaxSteps : depth_data = [i \in 1..n |-> Some(1050)]
    /\ stage = 1
    /\ iter_next = 0
    /\ in_progress = <<>>
    /\ completed = <<>>
    /\ emitted = <<>>
    /\ disconnect = None
    /\ peer = [num_rows |-> 1, emitted |-> <<>>]
    /\ ColorIdle
    /\ DrawIdle
    /\ AuxIdleExcept("cancel")

StreamKeptOnDisconnect == [stage |-> stage, in_progress |-> in_progress]
\* the response body is dropped, and with it the chained stream: the Buffered
\* queue and the futures in it (each owns only Arc clones of the request's data)
StreamDropped == [stage |-> 0, in_progress |-> <<>>]

\* the client disconnects while the stream is neither finished nor aborted
Disconnect ==
    /\ stage \in 1..3
    /\ disconnect = None
    /\ disconnect' = Some([emitted |-> emitted, completed |-> completed])
    /\ stage' = StreamDropped.stage
    /\ in_progress' = StreamDropped.in_progress
    /\ UNCHANGED <<depth_data, html_row_steps, iter_next, completed, emitted,
                   color_vars, draw_vars, hex_call, request, peer, png_cfg, png, conv>>

\* the chunk of the other request's stream that follows its n emitted ones
PeerChunk(n) ==
    IF n = 0 THEN "header" ELSE IF n <= peer.num_rows THEN "row" ELSE "closing"

\* a poll of the other request's stream, which owns its own data
PeerPoll ==
    /\ Len(peer.emitted) < peer.num_rows + 2
    /\ peer' = [peer EXCEPT !.emitted = Append(@, PeerChunk(Len(@)))]
    /\ UNCHANGED <<depth_data, stream_vars, color_vars, draw_vars, hex_call, request, disconnect,
                   png_cfg, png, conv>>

NextCancel ==
    \/ Next
    \/ Disconnect
    \/ PeerPoll

SpecCancel == InitCancel /\ [][NextCancel]_vars

\* what a step may do once the client has disconnected, and what the
\* disconnecting step may do to the other request
AfterDisconnectStep ==
    /\ IsSome(disconnect) =>
          /\ emitted' = emitted
          /\ completed' = completed
          /\ in_progress' = in_progress
          /\ iter_next' = iter_next
    /\ (disconnect = None /\ IsSome(disconnect')) => peer' = peer

\* C14: once the client has disconnected mid-stream, no further row-block
\* render of that request is started or emitted, and the disconnection leaves
\* the state of the other concurrent request unchanged.
Thm_C14_Cancellation == [][AfterDisconnectStep]_vars

\* the client left before every row block was started, nothing more has been
\* emitted or rendered, and the other request has run to its closing chunk
Wit_C14_PeerFinishes ==
    /\ IsSome(disconnect)
    /\ iter_next < num_rows
    /\ emitted = Unwrap(disconnect).emitted
    /\ Len(emitted) >= 2
    /\ Len(peer.emitted) = peer.num_rows + 2

\* --------------------------------- generate_plot_png, scales and guide lines
\* a value range is a pair of integers; tick values are counted in tenths, so
\* that minor_step = 0.1 (ranges below 10) is the integer 1.  Ranges narrower
\* than 1 are outside the model.
MaxScaleCurves == 2
MaxSpins == 2
NarrowWidth == 120

\* f64::INFINITY, stood in for by a value above every finite bound
Inf == 2 ^ 20

\* the f64 grid: below ExactBelow every tenth is a value of the model, from
\* ExactBelow on (up to 2 * ExactBelow) only the even numbers are, as from
\* 2^53 on in f64
ExactBelow == 2 ^ 10

\* a + b of f64, on values counted in tenths: the sum rounded to the nearest
\* value of the grid, to the one with the even significand on a tie
AddF64(a, b) ==
    LET v == a + b
        q == v \div 20
        r == v % 20
    IN  IF v < 10 * ExactBelow THEN v
        ELSE IF r < 10 THEN 20 * q
        ELSE IF r > 10 THEN 20 * (q + 1)
        ELSE IF q % 2 = 0 THEN 20 * q ELSE 20 * (q + 1)

RangeMins == {-5, 0}
RangeSpans == {0, 7, 47, 100}
\* the (min, max) pairs of config.x_ranges
RangeVals == {<<m, m + d>> : m \in RangeMins, d \in RangeSpans}
                 \cup {<<0, Inf>>, <<ExactBelow, ExactBelow + 4>>}

\* config.scale_spacing
ScaleSpacings == {2, 4}

IsFiniteAlways(v) == TRUE
\* f64::is_finite
IsFinite(v) == v < Inf /\ v > -Inf

\* if x_max > x_min && x_max.is_finite() && x_min.is_finite()
ValidRange(x_min, x_max) == x_max > x_min /\ IsFinite(x_max) /\ IsFinite(x_min)

RECURSIVE Order(_)
\* range.log10().floor() of a range >= 1
Order(range) == IF range < 10 THEN 0 ELSE 1 + Order(range \div 10)

RECURSIVE Pow10(_)
Pow10(n) == IF n = 0 THEN 1 ELSE 10 * Pow10(n - 1)

\* 10_f64.powf(order), in tenths
major_step(range) == Pow10(Order(range) + 1)

MinorStepOfMajor(range) == Pow10(Order(range) + 1)
\* 10_f64.powf(order - 1.0), in tenths
minor_step(range) == Pow10(Order(range))

\* (a / b).ceil() for b > 0
Ceil(a, b) == -((-a) \div b)

RECURSIVE TickLoop(_, _, _)
\* while value <= x_max { .. value += step }: the values the loop visits, once
\* each
TickLoop(value, step, hi) ==
    IF value > hi THEN <<>>
    ELSE IF AddF64(value, step) = value THEN <<value>>
    ELSE <<value>> \o TickLoop(AddF64(value, step), step, hi)

RECURSIVE LoopsForever(_, _, _)
\* the loop of TickLoop never leaves: `value += step` gives value back while
\* value <= x_max
LoopsForever(value, step, hi) ==
    IF value > hi THEN FALSE
    ELSE IF AddF64(value, step) = value THEN TRUE
    ELSE LoopsForever(AddF64(value, step), step, hi)

\* the major loop of a valid range never leaves
MajorLoopsForever(x_min, x_max) ==
    LET step == major_step(x_max - x_min)
    IN  LoopsForever(Ceil(10 * x_min, step) * step, step, 10 * x_max)

\* the minor loop of a valid range never leaves
MinorLoopsForever(x_min, x_max) ==
    LET step == minor_step(x_max - x_min)
    IN  LoopsForever(Ceil(10 * x_min, step) * step, step, 10 * x_max)

\* the major values of a valid range (tenths), from first_major on
MajorValues(x_min, x_max) ==
    LET step == major_step(x_max - x_min)
    IN  TickLoop(Ceil(10 * x_min, step) * step, step, 10 * x_max)

\* major_positions: (major_value / minor_step).round() of every major tick
major_positions(x_min, x_max) ==
    {MajorValues(x_min, x_max)[i] \div minor_step(x_max - x_min) :
        i \in 1..Len(MajorValues(x_min, x_max))}

MinorKeptAlways(minor_index, majors) == TRUE
\* if !major_positions.contains(&minor_index)
MinorKept(minor_index, majors) == minor_index \notin majors

\* the minor values of a valid range (tenths) that are drawn
MinorValues(x_min, x_max) ==
    LET step == minor_step(x_max - x_min)
        majors == major_positions(x_min, x_max)
        kept(v) == MinorKept(v \div step, majors)
    IN  SelectSeq(TickLoop(Ceil(10 * x_min, step) * step, step, 10 * x_max), kept)

\* the pixel column of tick_x = x_start + t * (x_end - x_start), t = (value - x_min) / range
TickColumn(value, x_min, x_max, x_start, plot_width) ==
    x_start + ((value - 10 * x_min) * plot_width) \div (10 * (x_max - x_min))

\* x_pixel_f64.round() as u32 of a major value
RoundedColumn(value, x_min, x_max, x_start, plot_width) ==
    x_start + (2 * (value - 10 * x_min) * plot_width + 10 * (x_max - x_min))
                  \div (2 * 10 * (x_max - x_min))

\* config.width.saturating_sub(plot_x_start)
plot_width(width) == Max(width - plot_x_start, 0)

\* calculate_scale_tick_positions: the guide-line columns of one curve
TickPositionsOf(x_min, x_max, width) ==
    IF ValidRange(x_min, x_max)
    THEN LET col(v) == RoundedColumn(v, x_min, x_max, plot_x_start, plot_width(width))
             inside(v) == col(v) >= plot_x_start /\ col(v) < plot_x_start + plot_width(width)
             vals == SelectSeq(MajorValues(x_min, x_max), inside)
         IN  [i \in 1..Len(vals) |-> col(vals[i])]
    ELSE <<>>

\* draw_scales: the ticks of the curve at idx, major ones first
TicksOf(idx, x_min, x_max, width) ==
    IF ValidRange(x_min, x_max)
    THEN LET majors == MajorValues(x_min, x_max)
             minors == MinorValues(x_min, x_max)
             tick(kind, v) == [idx |-> idx, kind |-> kind, value |-> v,
                               px |-> TickColumn(v, x_min, x_max, plot_x_start, width - plot_x_start)]
         IN  [i \in 1..Len(majors) |-> tick("major", majors[i])]
             \o [i \in 1..Len(minors) |-> tick("minor", minors[i])]
    ELSE <<>>

RECURSIVE SeqsUpTo(_, _)
\* the non-empty sequences over S of length n at most
SeqsUpTo(S, n) == IF n = 0 THEN {} ELSE SeqsUpTo(S, n - 1) \cup [1..n -> S]

\* one render: the scale strip of generate_html (height row_height, the
\* first max_scales curves) or a curve window with the same ranges
InitPng ==
    /\ \E ranges \in SeqsUpTo(RangeVals, MaxScaleCurves), max_scales \in {1, MaxScaleCurves},
          steps \in 1..MaxRowSteps, spacing \in ScaleSpacings,
          width \in {NarrowWidth, ImageWidth}, show \in BOOLEAN :
          png_cfg = [width |-> width,
                     height |-> steps * PixelsPerStep + 1,
                     scale_spacing |-> spacing,
                     max_scales |-> max_scales,
                     x_ranges |-> SubSeq(ranges, 1, Min(max_scales, Len(ranges))),
                     show_scales |-> show]
    /\ png = [pc |-> "start", idx |-> 0, y_pos |-> 0, rules |-> <<>>, ticks |-> <<>>,
              tick_positions |-> <<>>, points |-> <<>>, guide_lines |-> <<>>, spins |-> 0]
    /\ depth_data = <<>>
    /\ StreamIdle
    /\ ColorIdle
    /\ DrawIdle
    /\ AuxIdleExcept("png")

png_frame == <<depth_data, stream_vars, color_vars, draw_vars, hex_call, request, disconnect,
               peer, png_cfg, conv>>

\* the positions (1-based) of the curves of calculate_scale_tick_positions
\* whose major loop never leaves
StuckCurves ==
    {i \in 1..Min(png_cfg.max_scales, Len(png_cfg.x_ranges)) :
        /\ ValidRange(png_cfg.x_ranges[i][1], png_cfg.x_ranges[i][2])
        /\ MajorLoopsForever(png_cfg.x_ranges[i][1], png_cfg.x_ranges[i][2])}

\* generate_plot_png up to the branch on show_scales; calculate_scale_tick_positions
\* does not return when a major loop never leaves: `result` then holds the
\* curves before that one
TickPositions ==
    /\ png.pc = "start"
    /\ png' = [png EXCEPT
          !.tick_positions = [i \in 1..Min(png_cfg.max_scales, Len(png_cfg.x_ranges)) |->
                                 IF \E k \in StuckCurves : k <= i THEN <<>>
                                 ELSE TickPositionsOf(png_cfg.x_ranges[i][1],
                                                      png_cfg.x_ranges[i][2], png_cfg.width)],
          !.y_pos = IF StuckCurves = {} THEN png_cfg.scale_spacing ELSE @,
          !.pc = IF StuckCurves # {} THEN "spinning"
                 ELSE IF png_cfg.show_scales THEN "scales" ELSE "curves"]
    /\ UNCHANGED png_frame

\* one more turn of a tick loop that never leaves, counted up to MaxSpins
TickSpin ==
    /\ png.pc = "spinning"
    /\ png.spins < MaxSpins
    /\ png' = [png EXCEPT !.spins = @ + 1]
    /\ UNCHANGED png_frame

\* draw_scales: one iteration of the loop over the curves
ScaleCurve ==
    /\ png.pc = "scales"
    /\ LET r == png_cfg.x_ranges[png.idx + 1]
           y_next == png.y_pos + png_cfg.scale_spacing
           stuck == /\ ValidRange(r[1], r[2])
                    /\ MajorLoopsForever(r[1], r[2]) \/ MinorLoopsForever(r[1], r[2])
       IN  png' = [png EXCEPT
             !.rules = Append(@, [idx |-> png.idx, y |-> png.y_pos]),
             !.ticks = @ \o TicksOf(png.idx, r[1], r[2], png_cfg.width),
             !.y_pos = IF stuck THEN @ ELSE y_next,
             !.idx = IF stuck THEN @ ELSE @ + 1,
             !.pc = IF stuck THEN "spinning"
                    ELSE IF y_next >= png_cfg.height \/ png.idx + 1 >= Len(png_cfg.x_ranges)
                    THEN "drawn" ELSE "scales"]
    /\ UNCHANGED png_frame

\* draw_curves: the x pixel of a sample that holds the curve's minimum, and the
\* guide lines under the major ticks
CurveWindow ==
    /\ png.pc = "curves"
    /\ png' = [png EXCEPT
          !.points = [i \in 1..Len(png_cfg.x_ranges) |->
                         PixelCoord(plot_x_start, png_cfg.x_ranges[i][1], png_cfg.x_ranges[i][1],
                                    png_cfg.x_ranges[i][2], png_cfg.width)],
          !.guide_lines = [i \in 1..Len(png.tick_positions) |->
                              LET in_plot(x) == /\ x >= plot_x_start
                                                /\ x < plot_x_start + (png_cfg.width - plot_x_start)
                                                /\ x < png_cfg.width
                              IN  SelectSeq(png.tick_positions[i], in_plot)],
          !.pc = "drawn"]
    /\ UNCHANGED png_frame

\* encoder.write_image(..)?; Ok(png_data)
EncodePng ==
    /\ png.pc = "drawn"
    /\ png' = [png EXCEPT !.pc = "encoded"]
    /\ UNCHANGED png_frame

NextPng ==
    \/ TickPositions
    \/ TickSpin
    \/ ScaleCurve
    \/ CurveWindow
    \/ EncodePng

SpecPng == InitPng /\ [][NextPng]_vars

\* a major and a minor tick of one curve in the same pixel column
TickClash ==
    \E i, j \in 1..Len(png.ticks) :
        /\ png.ticks[i].idx = png.ticks[j].idx
        /\ png.ticks[i].kind = "major"
        /\ png.ticks[j].kind = "minor"
        /\ png.ticks[i].px = png.ticks[j].px

\* C15 as stated: in the scale strip no pixel x-position of one curve carries
\* both a major and a minor tick, for every valid range and every canvas width.
Cex_C15_TickExclusivity == ~TickClash

\* C15, amended: in the scale strip no pixel x-position of one curve carries
\* both a major and a minor tick, for every valid range and every canvas
\* width whose plot area (width - 100) is at least 100 pixels wide.
Thm_C15_TickExclusivityWide ==
    (png.pc # "idle" /\ png_cfg.width - plot_x_start >= 100) => ~TickClash

\* on a wide canvas a major and a minor tick of one curve stand in
\* neighbouring columns
Wit_C15_NeighbouringTicks ==
    /\ png.pc = "encoded"
    /\ png_cfg.width - plot_x_start >= 100
    /\ \E i, j \in 1..Len(png.ticks) :
          /\ png.ticks[i].idx = png.ticks[j].idx
          /\ png.ticks[i].kind = "major"
          /\ png.ticks[j].kind = "minor"
          /\ png.ticks[j].px = png.ticks[i].px + 1

\* the values (tenths) of the ticks of one kind drawn for the curve at idx
TickValues(idx, kind) ==
    {png.ticks[i].value : i \in {j \in 1..Len(png.ticks) :
                                    png.ticks[j].idx = idx /\ png.ticks[j].kind = kind}}

\* the curves of range (0, 47) whose scale has been drawn
Drawn047 ==
    {idx \in 0..(png.idx - 1) : png_cfg.show_scales /\ png_cfg.x_ranges[idx + 1] = <<0, 47>>}

\* decade = 1, major_step = 10, minor_step = 1, and the minor ticks are the
\* integers 1..47 that are not multiples of 10
Layout047(idx) ==
    /\ Order(47 - 0) = 1
    /\ major_step(47 - 0) = 10 * 10
    /\ minor_step(47 - 0) = 10 * 1
    /\ TickValues(idx, "minor") = {10 * k : k \in {n \in 1..47 : n % 10 # 0}}

\* C16 as stated: for the range (0, 47) decade = 1, major_step = 10,
\* minor_step = 1, the major ticks are exactly at 10, 20, 30, 40 and the minor
\* ticks are exactly the integers 1..47 that are not multiples of 10.
Cex_C16_Layout047 ==
    \A idx \in Drawn047 :
        Layout047(idx) /\ TickValues(idx, "major") = {10 * m : m \in {10, 20, 30, 40}}

\* C16, amended: for the range (0, 47) decade = 1, major_step = 10,
\* minor_step = 1, the major ticks are exactly at 0, 10, 20, 30, 40 (with a
\* guide-line position for each) and the minor ticks are exactly the integers
\* 1..47 that are not multiples of 10.
Thm_C16_Layout047WithZero ==
    \A idx \in Drawn047 :
        /\ Layout047(idx)
        /\ TickValues(idx, "major") = {10 * m : m \in {0, 10, 20, 30, 40}}
        /\ Len(png.tick_positions[idx + 1]) = 5
        /\ png.tick_positions[idx + 1][1] = plot_x_start

\* a scale strip with a curve of range (0, 47) has been drawn and encoded
Wit_C16_Strip047 ==
    /\ png.pc = "encoded"
    /\ Drawn047 # {}

\* a range with max == min or with a non-finite bound
DegenerateRange(r) == r[2] = r[1] \/ r[2] >= Inf \/ r[1] <= -Inf

DegenerateCurves ==
    {idx \in 0..(Len(png_cfg.x_ranges) - 1) : DegenerateRange(png_cfg.x_ranges[idx + 1])}

\* C17: for a curve whose range has max == min or a non-finite bound no major
\* tick, no minor tick and no guide-line position is produced, and both render
\* modes go on without a fault: the rule of the scale and the pixel of the
\* curve window are still produced on the way to the encoded image.
Thm_C17_DegenerateRange ==
    png.pc # "idle" =>
      \A idx \in DegenerateCurves :
        /\ \A i \in 1..Len(png.ticks) : png.ticks[i].idx # idx
        /\ png.pc # "start" => png.tick_positions[idx + 1] = <<>>
        /\ (png.pc \in {"drawn", "encoded"} /\ ~png_cfg.show_scales) =>
              /\ png.guide_lines[idx + 1] = <<>>
              /\ png.points[idx + 1] \in 0..U32Max
        /\ (png_cfg.show_scales /\ idx < png.idx) =>
              \E i \in 1..Len(png.rules) : png.rules[i].idx = idx

\* a curve window with a max == min curve has been encoded: the sample's x
\* was 0/0, cast to the pixel 0
Wit_C17_WindowEncoded ==
    /\ png.pc = "encoded"
    /\ ~png_cfg.show_scales
    /\ \E idx \in DegenerateCurves :
          /\ png_cfg.x_ranges[idx + 1][1] = png_cfg.x_ranges[idx + 1][2]
          /\ png.points[idx + 1] = 0

\* ------------------------------------------------- convert_bgra_to_rgba
MaxBufLen == 21

ShuffleMaskFirstUnswapped == <<0, 1, 2, 3, 6, 5, 4, 7, 10, 9, 8, 11, 14, 13, 12, 15>>
\* _mm_setr_epi8(2, 1, 0, 3, 6, 5, 4, 7, 10, 9, 8, 11, 14, 13, 12, 15)
shuffle_mask == <<2, 1, 0, 3, 6, 5, 4, 7, 10, 9, 8, 11, 14, 13, 12, 15>>

\* _mm_shuffle_epi8(src_vec, shuffle_mask) of 16 bytes
Shuffled(src_vec) == [k \in 1..16 |-> src_vec[shuffle_mask[k] + 1]]

\* convert_bgra_to_rgba_scalar: chunks_exact(4) of src zipped with those of
\* dst; the bytes of dst past the last whole pair of chunks stay as they are
convert_bgra_to_rgba_scalar(src, dst) ==
    LET pairs == Min(Len(src) \div 4, Len(dst) \div 4)
        from(c) == <<2, 1, 0, 3>>[c + 1]
    IN  [k \in 1..Len(dst) |->
            IF (k - 1) \div 4 < pairs
            THEN src[4 * ((k - 1) \div 4) + from((k - 1) % 4) + 1]
            ELSE dst[k]]

pixel_count == Len(conv.src) \div 4
simd_count == pixel_count \div 4
remainder == pixel_count % 4

\* the bytes of a DrawTarget buffer: distinct within every pixel
SrcBytes(len, seed) == [k \in 1..len |-> (seed + 7 * k) % 256]

\* src is the DrawTarget buffer, dst the RgbaImage buffer of the same
\* dimensions, filled with 255
InitConv ==
    /\ \E len \in 0..MaxBufLen, seed \in {0, 250}, ssse3 \in BOOLEAN :
          conv = [pc |-> "call", ssse3 |-> ssse3, src |-> SrcBytes(len, seed),
                  dst |-> [k \in 1..len |-> 255], i |-> 0]
    /\ depth_data = <<>>
    /\ StreamIdle
    /\ ColorIdle
    /\ DrawIdle
    /\ AuxIdleExcept("conv")

conv_frame == <<depth_data, stream_vars, color_vars, draw_vars, hex_call, request, disconnect,
                peer, png_cfg, png>>

\* convert_bgra_to_rgba: is_x86_feature_detected!("ssse3") picks the path
ConvertDispatch ==
    /\ conv.pc = "call"
    /\ conv' = [conv EXCEPT !.pc = IF conv.ssse3 THEN "sse" ELSE "scalar"]
    /\ UNCHANGED conv_frame

\* convert_bgra_to_rgba_sse: one iteration of `for i in 0..simd_count`
SseChunk ==
    /\ conv.pc = "sse"
    /\ conv.i < simd_count
    /\ LET offset == conv.i * 16
           shuffled == Shuffled(SubSeq(conv.src, offset + 1, offset + 16))
       IN  conv' = [conv EXCEPT
             !.dst = [k \in 1..Len(conv.dst) |->
                         IF k > offset /\ k <= offset + 16 THEN shuffled[k - offset] ELSE conv.dst[k]],
             !.i = @ + 1]
    /\ UNCHANGED conv_frame

\* convert_bgra_to_rgba_sse past the loop: the remaining pixels go to the
\* scalar version
SseRemainder ==
    /\ conv.pc = "sse"
    /\ conv.i = simd_count
    /\ LET offset == simd_count * 16
       IN  conv' = [conv EXCEPT
             !.dst = IF remainder > 0
                     THEN SubSeq(conv.dst, 1, offset)
                          \o convert_bgra_to_rgba_scalar(SubSeq(conv.src, offset + 1, Len(conv.src)),
                                                         SubSeq(conv.dst, offset + 1, Len(conv.dst)))
                     ELSE conv.dst,
             !.pc = "done"]
    /\ UNCHANGED conv_frame

\* the fallback: convert_bgra_to_rgba_scalar on the whole buffers
ScalarConvert ==
    /\ conv.pc = "scalar"
    /\ conv' = [conv EXCEPT !.dst = convert_bgra_to_rgba_scalar(conv.src, conv.dst),
                             !.pc = "done"]
    /\ UNCHANGED conv_frame

NextConv ==
    \/ ConvertDispatch
    \/ SseChunk
    \/ SseRemainder
    \/ ScalarConvert

SpecConv == InitConv /\ [][NextConv]_vars

\* C18: the SIMD path (four pixels at a time, scalar remainder) gives the same
\* bytes as the scalar fallback for every buffer length, and every output
\* pixel is the input pixel with channels 0 and 2 swapped, 1 and 3 unchanged.
Thm_C18_SimdEqualsScalar ==
    conv.pc = "done" =>
      /\ conv.dst = convert_bgra_to_rgba_scalar(conv.src, [k \in 1..Len(conv.src) |-> 255])
      /\ Len(conv.dst) = Len(conv.src)
      /\ \A p \in 0..(Len(conv.src) \div 4 - 1) :
            /\ conv.dst[4 * p + 1] = conv.src[4 * p + 3]
            /\ conv.dst[4 * p + 2] = conv.src[4 * p + 2]
            /\ conv.dst[4 * p + 3] = conv.src[4 * p + 1]
            /\ conv.dst[4 * p + 4] = conv.src[4 * p + 4]

\* the SIMD path has converted a whole group of four pixels and left a
\* remainder to the scalar version
Wit_C18_SimdWithRemainder ==
    /\ conv.pc = "done"
    /\ conv.ssse3
    /\ conv.i >= 1
    /\ remainder > 0

\* ------------------------------------------------- the heights of the images
\* C19: all images of one document have the same pixel height: every
\* row-block image has the one block height, a short last block included, and
\* the scale-strip image of the header has that same height.
Cex_C19_OneImageHeight ==
    \A i, j \in 1..Len(emitted) :
        (emitted[i].kind \in {"header", "row"} /\ emitted[j].kind \in {"header", "row"})
            => emitted[i].height = emitted[j].height

\* ------------------------------------------------------ the widening rule
\* C20: the end index passed to the renderer for block k is
\* min((k+1)*rows_per_block, total) + 1 exactly when k is not the last block
\* and the sample at index min((k+1)*rows_per_block, total) exists and is
\* non-null; otherwise it is min((k+1)*rows_per_block, total); the last block
\* is never widened.
Thm_C20_WideningRule ==
    \A i \in 1..Len(emitted) :
        emitted[i].kind = "row" =>
            LET k == emitted[i].row
                e == Min((k + 1) * html_row_steps, Len(depth_data))
                last == k = CeilDiv(Len(depth_data), html_row_steps) - 1
                shared == e < Len(depth_data) /\ depth_data[e + 1] # None
            IN  /\ emitted[i].actual_end = IF ~last /\ shared THEN e + 1 ELSE e
                /\ last => emitted[i].actual_end = e

\* one document with a widened block, a block that is not the last and is
\* not widened because the shared sample is null, and its last block
Wit_C20_WidenedAndNot ==
    /\ StreamDone
    /\ \E i, j \in 1..Len(emitted) :
          /\ emitted[i].kind = "row"
          /\ emitted[j].kind = "row"
          /\ emitted[i].actual_end = emitted[i].end + 1
          /\ emitted[j].row < num_rows - 1
          /\ emitted[j].actual_end = emitted[j].end

\* ------------------------------------------------- the parallel arrays
\* iter().take(max_scales).cloned().collect()
Take(seq, n) == SubSeq(seq, 1, Min(n, Len(seq)))

\* generate_html: the copies of the three arrays that go to the scale strip
scale_curves_data(max_scales) == Take(curves_data, max_scales)
scale_colors(max_scales) == Take(plot_colors, max_scales)
scale_x_ranges(max_scales) == Take(x_ranges, max_scales)

\* cd, xr, pc have one length, their i-th entries are the data, the range and
\* the colour of one curve of the file, and that curve is not the main one
ParallelArrays(cd, xr, pc) ==
    /\ Len(cd) = Len(xr)
    /\ Len(cd) = Len(pc)
    /\ \A i \in 1..Len(cd) :
          /\ cd[i].idx \in 0..(n_curves - 1)
          /\ cd[i].idx # main_param_idx
          /\ cd[i].data = las_cols[cd[i].idx + 1]
          /\ cd[i].mnemonic = Mnemonic(cd[i].idx)
          /\ xr[i] = <<SetMin(ValidValues(las_cols[cd[i].idx + 1])),
                       SetMax(ValidValues(las_cols[cd[i].idx + 1]))>>
          /\ pc[i] = IF i <= Len(colors) THEN hex_to_rgb(colors[i])
                     ELSE hex_to_rgb(FallbackHex(cd[i].idx))
          /\ \A j \in 1..Len(cd) : i < j => cd[i].idx < cd[j].idx

\* C21: after handle_request has prepared the plot inputs, curves_data,
\* x_ranges and plot_colors have the same length, their i-th entries belong
\* to the same curve and the main curve is not among them; the same holds for
\* the copies truncated to max_scales for the scale strip.
Thm_C21_ParallelArrays ==
    req_pc \in {"resolved", "mapped", "legend"} =>
        /\ ParallelArrays(curves_data, x_ranges, plot_colors)
        /\ \A max_scales \in 0..(MaxCurves + 1) :
              ParallelArrays(scale_curves_data(max_scales), scale_x_ranges(max_scales),
                             scale_colors(max_scales))

\* the main curve stands between two plotted curves, a curve without samples
\* was left out, and max_scales = 1 truncates the arrays
Wit_C21_MainInTheMiddle ==
    /\ req_pc = "legend"
    /\ Len(curves_data) >= 2
    /\ curves_data[1].idx < main_param_idx
    /\ curves_data[2].idx > main_param_idx
    /\ Len(curves_data) < n_curves - 1
    /\ Len(scale_curves_data(1)) < Len(curves_data)

\* ------------------------------------------- draw_curves, two curves
\* one row block that holds the whole log, every depth valid, two plotted
\* curves
InitDrawPair ==
    /\ \E n \in 2..MaxDrawSteps :
          /\ depth_data = [i \in 1..n |-> Some(DepthAt(i - 1))]
          /\ html_row_steps = n
    /\ draw_data \in [1..2 -> [1..Len(depth_data) -> {None} \cup {Some(v) : v \in CurveVals}]]
    /\ \A i \in 1..Len(depth_data) : IsSome(draw_data[1][i])
    /\ \A c \in 1..Len(draw_data) : IsSome(get_curve_stats(draw_data[c]))
    /\ draw_cfg = [width |-> ImageWidth,
                   height |-> block_height,
                   x_ranges |-> [c \in 1..Len(draw_data) |-> Unwrap(get_curve_stats(draw_data[c]))],
                   n_colors |-> Len(draw_data),
                   y_range |-> Unwrap(get_curve_stats(depth_data)),
                   start |-> start_block_value(0),
                   end |-> actual_end(0)]
    /\ draw_pc = "start"
    /\ curve_idx = 0
    /\ slice_idx = 0
    /\ last_point = None
    /\ strokes = <<>>
    /\ stage = 0
    /\ iter_next = 0
    /\ in_progress = <<>>
    /\ completed = <<>>
    /\ emitted = <<>>
    /\ ColorIdle
    /\ AuxIdle

SpecDrawPair == InitDrawPair /\ [][NextDraw]_vars

\* C22: in curve-window mode the curves are drawn in decreasing index order:
\* for every pair i < j of drawn curves every segment of curve j is stroked
\* before any segment of curve i.
Thm_C22_ReverseOrder ==
    \A m, n \in 1..Len(strokes) : m < n => strokes[m].curve >= strokes[n].curve

\* both curves have got a segment
Wit_C22_BothCurvesStroked ==
    /\ draw_pc = "done"
    /\ \E m, n \in 1..Len(strokes) : strokes[m].curve = 1 /\ strokes[n].curve = 0

\* ------------------------------------------------ the rules of the scale strip
\* C23: in scale-strip mode the rule of the curve at list position p is drawn
\* at y = scale_spacing * (p + 1), in original curve order, for at most
\* max_scales curves, and no rule is drawn at a y that exceeds the canvas
\* height.
Cex_C23_RulePositions ==
    png.pc # "idle" =>
        /\ Len(png.rules) <= png_cfg.max_scales
        /\ \A i \in 1..Len(png.rules) :
              /\ png.rules[i].idx = i - 1
              /\ png.rules[i].y = png_cfg.scale_spacing * (png.rules[i].idx + 1)
              /\ png.rules[i].y <= png_cfg.height

\* ------------------------------------------------ samples outside the canvas
\* the sample at data_idx of curve c has a value and its pixel is outside the
\* canvas
OutOfCanvasAt(c, data_idx) ==
    /\ data_idx < Len(draw_data[c + 1])
    /\ IsSome(draw_data[c + 1][data_idx + 1])
    /\ \/ PointOf(c, data_idx)[1] >= draw_cfg.width
       \/ PointOf(c, data_idx)[2] >= draw_cfg.height

\* the walk is at a sample of the current curve that is outside the canvas
AtOutOfCanvasSample ==
    /\ draw_pc = "walk"
    /\ curve_idx >= 0
    /\ ~CurveSkipped(curve_idx)
    /\ slice_idx < Len(DrawValid)
    /\ OutOfCanvasAt(EnumerateRev(curve_idx), DrawValid[slice_idx + 1])

\* every stroked segment has both endpoints inside the canvas
StrokesInCanvas ==
    \A m \in 1..Len(strokes) :
        /\ strokes[m].p1[1] < draw_cfg.width /\ strokes[m].p1[2] < draw_cfg.height
        /\ strokes[m].p2[1] < draw_cfg.width /\ strokes[m].p2[2] < draw_cfg.height

OutOfCanvasStep ==
    /\ StrokesInCanvas'
    /\ AtOutOfCanvasSample =>
          /\ draw_pc' = "walk"
          /\ curve_idx' = curve_idx
          /\ slice_idx' = slice_idx + 1
          /\ strokes' = strokes

\* C24: a sample whose pixel falls outside the canvas is never an endpoint of
\* a stroked segment and does not abort the curve: the walk goes on to the
\* next sample of the same curve, the other curves are still walked, and the
\* render comes to its end.
Thm_C24_OutOfCanvasSkipped == [][OutOfCanvasStep]_vars

\* the render is over; curve 1 had a sample outside the canvas, a later sample
\* of curve 1 was stroked, and curve 0 was stroked after it
Wit_C24_StrokedAfterOutOfCanvas ==
    /\ draw_pc = "done"
    /\ \E i \in 0..(Len(depth_data) - 1), m, n \in 1..Len(strokes) :
          /\ i \in SeqRange(DrawValid)
          /\ OutOfCanvasAt(1, i)
          /\ strokes[m].curve = 1
          /\ strokes[m].to > i
          /\ strokes[n].curve = 0

\* ------------------------------------------------ renders share no state
\* what the render of block k makes of the dataset and the configuration alone
ChunkOfBlock(k) ==
    [kind |-> "row", row |-> k,
     label |-> DepthLabel(start_depth(k * html_row_steps)),
     start |-> k * html_row_steps,
     end |-> end_block_value(k),
     actual_end |-> actual_end(k),
     read |-> valid_indices(depth_data, k * html_row_steps, actual_end(k)),
     height |-> block_height]

\* every finished render among `renders` and every row chunk among `items` is
\* the chunk of its block
ChunksOfTheirBlocks(renders, items) ==
    /\ \A i \in 1..Len(renders) :
          (renders[i].st = "ready" /\ renders[i].out.kind = "row")
              => renders[i].out = ChunkOfBlock(renders[i].row)
    /\ \A n \in 1..Len(items) :
          items[n].kind = "row" => items[n] = ChunkOfBlock(items[n].row)

RenderWritesNothingShared ==
    /\ depth_data' = depth_data
    /\ html_row_steps' = html_row_steps
    /\ curves_data' = curves_data
    /\ x_ranges' = x_ranges
    /\ plot_colors' = plot_colors
    /\ ChunksOfTheirBlocks(in_progress', emitted')

\* C25: rendering a row block writes no shared state: the dataset, the depth
\* series and the plot configuration are unchanged by every render, and the
\* chunk of block k is the same whichever other blocks are rendered before,
\* after or together with it.
Thm_C25_RendersIndependent == [][RenderWritesNothingShared]_vars

\* the stream is over, three row chunks were emitted, and the renders did not
\* complete in block order
Wit_C25_RendersOutOfOrder ==
    /\ StreamDone
    /\ Len(RowChunks) >= 3
    /\ \E k \in 0..(num_rows - 2) :
          /\ PosIn(completed, k) > 0
          /\ PosIn(completed, k + 1) > 0
          /\ PosIn(completed, k + 1) < PosIn(completed, k)

\* ------------------------------------------------ samples inside the range
\* C26: every sample of the window with a non-null depth and a non-null value
\* within [min, max] maps to a pixel inside the canvas (x < width, y < height)
\* and is plotted; in particular the sample with the curve's maximum value and
\* the sample with the window's maximum depth.
Cex_C26_InRangeInCanvas ==
    draw_pc \in {"walk", "done"} =>
        \A i \in SeqRange(DrawValid) :
            (/\ i < Len(draw_data[1])
             /\ IsSome(draw_data[1][i + 1])
             /\ Unwrap(draw_data[1][i + 1]) >= draw_cfg.x_ranges[1][1]
             /\ Unwrap(draw_data[1][i + 1]) <= draw_cfg.x_ranges[1][2])
                => InCanvas(PointOf(0, i))

\* ------------------------------------------------ what lifts the pen
\* the valid indices of the window strictly between a and b
Between(a, b) == {i \in SeqRange(DrawValid) : a < i /\ i < b}

\* the sample at data_idx of curve c has a value and its pixel is in the canvas
InCanvasAt(c, data_idx) ==
    /\ data_idx < Len(draw_data[c + 1])
    /\ IsSome(draw_data[c + 1][data_idx + 1])
    /\ PointOf(c, data_idx)[1] < draw_cfg.width
    /\ PointOf(c, data_idx)[2] < draw_cfg.height

Joined(c, a, b) ==
    \E m \in 1..Len(strokes) :
        strokes[m].curve = c /\ strokes[m].from = a /\ strokes[m].to = b

Thm_C28_NoEmptyChunk ==
    /\ \A row_idx \in 0..(num_rows - 1) : row_idx * html_row_steps < total_steps
    /\ \A i \in 1..Len(in_progress) :
          in_progress[i].st = "ready" => in_progress[i].out.kind # "empty"
    /\ \A n \in 1..Len(emitted) : emitted[n].kind # "empty"

\* the stream is over, every block's chunk was emitted, and the last block is
\* a full one: the next multiple of html_row_steps is the number of samples
Wit_C28_LastBlockFull ==
    /\ StreamDone
    /\ num_rows >= 2
    /\ Len(RowChunks) = num_rows
    /\ total_steps = num_rows * html_row_steps

\* ------------------------------------------------ rows without a depth
\* every row strictly between a and b has a null depth
NullDepthBetween(a, b) == \A i \in (a + 1)..(b - 1) : Get(depth_data, i) = None

TicksDrawn(idx, kind) ==
    {i \in 1..Len(png.ticks) : png.ticks[i].idx = idx /\ png.ticks[i].kind = kind}

\* C30: for every valid range the major loop and the minor loop terminate, with
\* at least 1 and at most 10 major ticks and at most 100 minor ticks per curve.
Cex_C30_TickLoopsTerminate ==
    /\ png.pc # "spinning"
    /\ \A idx \in 0..(png.idx - 1) :
          ValidRange(png_cfg.x_ranges[idx + 1][1], png_cfg.x_ranges[idx + 1][2]) =>
              /\ Cardinality(TicksDrawn(idx, "major")) \in 1..10
              /\ Cardinality(TicksDrawn(idx, "minor")) <= 100

====
